---- MODULE Spec2Model ----
(***************************************************************************)
(* Model of backend/main.py: the /api/generate handler generate_website    *)
(* and the two coroutines it awaits, fetch_github_data and                 *)
(* generate_website_content.  One request is followed from the arrival of  *)
(* the WebsiteRequest to the returned {"content": ...} or the raised       *)
(* HTTPException(500).  The GitHub API and the generation service are the  *)
(* environment: their replies are chosen nondeterministically at the step  *)
(* that issues the call.                                                   *)
(***************************************************************************)
EXTENDS Integers, Sequences, FiniteSets, TLC

VARIABLES
    pc,             \* position of the request inside generate_website
    request,        \* the WebsiteRequest body
    username,       \* local of generate_website (line 136)
    repos_json,     \* response.json() of the repository-list read
    profile_json,   \* profile_response.json() of the profile read
    github_data,    \* value returned by fetch_github_data (a dict or None)
    prompt,         \* the prompt built by generate_website_content
    reply,          \* what anthropic.messages.create did
    response,       \* the value generate_website returns
    raised,         \* the exception caught at line 150
    detail,         \* detail of the HTTPException raised at line 151
    printed,        \* exceptions printed by fetch_github_data's handlers
    repo_calls,     \* number of requests.get(url) issued
    profile_calls,  \* number of requests.get(profile_url) issued
    gen_calls       \* number of anthropic.messages.create calls issued

vars == <<pc, request, username, repos_json, profile_json, github_data, prompt,
          reply, response, raised, detail, printed, repo_calls, profile_calls,
          gen_calls>>

----------------------------------------------------------------------------
(* Bounds of the model. *)

\* longest repository list whose entries vary only in their star counts
MaxRepos == 6
\* longest repository list whose entries vary in every field
MaxVaried == 2
\* largest star count of a repository
MaxStars == 1

----------------------------------------------------------------------------
(* Python values.  A JSON null / Python None, a str, an int and a str kept  *)
(* as its characters (for slicing) are tagged records, so that None, ''    *)
(* and 0 stay distinct values.                                             *)

None == [t |-> "None"]
Unset == [t |-> "unset"]
Str(s) == [t |-> "str", s |-> s]
Num(n) == [t |-> "int", n |-> n]
Chars(c) == [t |-> "chars", c |-> c]
\* a parsed JSON array and a parsed JSON object
List(items) == [t |-> "list", items |-> items]
Dict(items) == [t |-> "dict", items |-> items]

Min(a, b) == IF a <= b THEN a ELSE b

\* Python truth value of a JSON value: None, '' and 0 are false.
Truthy(v) ==
    CASE v.t = "None"  -> FALSE
      [] v.t = "str"   -> v.s # ""
      [] v.t = "int"   -> v.n # 0
      [] v.t = "chars" -> v.c # <<>>

\* Python's  a or b
Or(a, b) == IF Truthy(a) THEN a ELSE b

\* dict.get(key, default): the default is used only when the key is missing.
Get(d, key, default) == IF key \in DOMAIN d THEN d[key] ELSE default

RECURSIVE Join(_)
Join(c) == IF c = <<>> THEN "" ELSE Head(c) \o Join(Tail(c))

\* str(v) as an f-string replacement field renders it.
Format(v) ==
    CASE v.t = "None"  -> "None"
      [] v.t = "str"   -> v.s
      [] v.t = "int"   -> ToString(v.n)
      [] v.t = "chars" -> Join(v.c)

\* Exceptions: a type and the message str(e) gives.
Exc(type, msg) == [type |-> type, msg |-> msg]
NoExc == Exc("", "")
NoneSubscript == Exc("TypeError", "'NoneType' object is not subscriptable")
NotAwaitable == Exc("TypeError", "object Message can't be used in 'await' expression")
KeyErr(key) == Exc("KeyError", "'" \o key \o "'")

\* requests.exceptions.RequestException raised by requests.get (transport)
\* and by raise_for_status (bad status).
TransportError == Exc("ConnectionError", "connection failed")
StatusError == Exc("HTTPError", "404 Client Error: Not Found")
ReadErrors == {TransportError, StatusError}

\* Errors of the generation service.
GenErrors == {Exc("APIConnectionError", "Connection error.")}

----------------------------------------------------------------------------
(* The request. *)

\* A URL is its sequence of characters, with every run of characters other
\* than '/' kept as one element.
Urls == { <<"https:", "/", "/", "github.com", "/", "octocat">>,
          <<"https:", "/", "/", "github.com", "/", "octocat", "/">> }

Requests == [github_url : Urls, color_palette : {"modern"}, layout : {"minimal"}]

\* github_url.split('/')[-1]
LastSegment(url) ==
    IF url = <<>> \/ url[Len(url)] = "/" THEN "" ELSE url[Len(url)]

----------------------------------------------------------------------------
(* The repository list. *)

RepoKeys == {"name", "stargazers_count", "description", "language", "updated_at"}

Timestamp == Chars(<<"2", "0", "2", "4", "-", "0", "1", "-", "0", "2",
                     "T", "0", "3", ":", "0", "4", ":", "0", "5", "Z">>)

\* The i-th repository document of a response; names are distinct.
RepoDoc(i, stars, description, language, updated_at) ==
    [name |-> Str("repo" \o ToString(i)),
     stargazers_count |-> stars,
     description |-> description,
     language |-> language,
     updated_at |-> updated_at]

Without(d, key) == [k \in (DOMAIN d) \ {key} |-> d[k]]

\* Documents that differ only in their star count.
PlainDocs(i) ==
    { RepoDoc(i, s, Str("a tool"), Str("Python"), Timestamp) : s \in 0..MaxStars }

\* Documents with absent descriptions and languages, a null date, or a
\* missing key; their star counts are the least and the largest.
VariedDocs(i) ==
    LET full == { RepoDoc(i, s, d, l, Timestamp) :
                    s \in {0, MaxStars},
                    d \in {None, Str(""), Str("a tool")},
                    l \in {None, Str(""), Str("Python")} }
        base == RepoDoc(i, 1, Str("a tool"), Str("Python"), Timestamp)
    IN  full \cup { [base EXCEPT !.updated_at = None] }
             \cup { Without(base, k) : k \in RepoKeys }

RECURSIVE ListsOf(_, _)
\* all lists of length n whose i-th entry is a plain or a varied document
ListsOf(n, varied) ==
    IF n = 0 THEN { <<>> }
    ELSE { Append(l, d) : l \in ListsOf(n - 1, varied),
                          d \in IF varied THEN VariedDocs(n) ELSE PlainDocs(n) }

\* The replies the repository-list read can parse to.
RepoResponses ==
    UNION { ListsOf(n, FALSE) : n \in 0..MaxRepos }
    \cup UNION { ListsOf(n, TRUE) : n \in 0..MaxVaried }

\* The exception building the dict of lines 49-55 raises on one document:
\* the keys are read in the order written, the date is sliced last.
ParseError(doc) ==
    CASE "name" \notin DOMAIN doc             -> KeyErr("name")
      [] "stargazers_count" \notin DOMAIN doc -> KeyErr("stargazers_count")
      [] "description" \notin DOMAIN doc      -> KeyErr("description")
      [] "language" \notin DOMAIN doc         -> KeyErr("language")
      [] "updated_at" \notin DOMAIN doc       -> KeyErr("updated_at")
      [] doc.updated_at = None                -> NoneSubscript
      [] OTHER                                -> NoExc

\* s[:10]
Slice10(v) == Chars(SubSeq(v.c, 1, Min(10, Len(v.c))))

\* ParseRepo with dict.get-style defaults: a null or empty value is kept.
ParseRepoKeepsAbsent(doc) ==
    [name |-> doc.name,
     stars |-> doc.stargazers_count,
     description |-> doc.description,
     language |-> doc.language,
     last_updated |-> Slice10(doc.updated_at)]

\* The dict appended at lines 49-55.
ParseRepo(doc) ==
    [name |-> doc.name,
     stars |-> doc.stargazers_count,
     description |-> Or(doc.description, Str("No description")),
     language |-> Or(doc.language, Str("Not specified")),
     last_updated |-> Slice10(doc.updated_at)]

\* Index of the first document of the list that does not parse, 0 if none.
FirstBad(docs) ==
    IF \E i \in 1..Len(docs) : ParseError(docs[i]) # NoExc
    THEN CHOOSE i \in 1..Len(docs) :
            /\ ParseError(docs[i]) # NoExc
            /\ \A j \in 1..(i - 1) : ParseError(docs[j]) = NoExc
    ELSE 0

\* The list built by the loop of lines 47-55.
ParseRepos(docs) == [i \in 1..Len(docs) |-> ParseRepo(docs[i])]

\* InsertAt of a sort that puts an entry before the entries of equal stars.
InsertAtUnstable(sorted, r) ==
    1 + Cardinality({ i \in 1..Len(sorted) : sorted[i].stars > r.stars })

\* Position at which a stable descending sort places r in a sorted list:
\* behind every entry with at least as many stars.
InsertAt(sorted, r) ==
    1 + Cardinality({ i \in 1..Len(sorted) : sorted[i].stars >= r.stars })

Insert(sorted, r) ==
    LET k == InsertAt(sorted, r)
    IN  SubSeq(sorted, 1, k - 1) \o <<r>> \o SubSeq(sorted, k, Len(sorted))

RECURSIVE SortByStars(_)
\* repos.sort(key=lambda x: x['stars'], reverse=True): a stable sort, equal
\* keys keep their order also under reverse=True.
SortByStars(repos) ==
    IF repos = <<>> THEN <<>>
    ELSE Insert(SortByStars(SubSeq(repos, 1, Len(repos) - 1)), repos[Len(repos)])

----------------------------------------------------------------------------
(* The profile document. *)

ProfileKeys == {"name", "bio", "avatar_url", "location", "blog",
                "twitter_username", "public_repos"}

FullProfile ==
    [name |-> Str("The Octocat"), bio |-> Str("a bio"),
     avatar_url |-> Str("https://a/u.png"), location |-> Str("SF"),
     blog |-> Str("https://b"), twitter_username |-> Str("octo"),
     public_repos |-> Num(8)]

\* The replies the profile read can parse to: every key present, no key
\* present, every value null, and the profile of a user who filled in
\* nothing (GitHub sends the keys with null values) and lacks two keys.
ProfileDocs ==
    { FullProfile,
      [k \in {} |-> None],
      [k \in ProfileKeys |-> None],
      [k \in ProfileKeys \ {"blog", "public_repos"} |->
          IF k \in {"name", "bio"} THEN None ELSE FullProfile[k]] }

\* The 'profile' dict of lines 67-76.
BuildProfile(doc, user) ==
    [name |-> Get(doc, "name", Str(user)),
     login |-> Str(user),
     bio |-> Get(doc, "bio", Str("")),
     avatar_url |-> Get(doc, "avatar_url", Str("")),
     location |-> Get(doc, "location", Str("")),
     blog |-> Get(doc, "blog", Str("")),
     twitter_username |-> Get(doc, "twitter_username", Str("")),
     public_repos |-> Get(doc, "public_repos", Num(0))]

\* The dict of lines 66-78.
GithubData(doc, user, repos) ==
    [profile |-> BuildProfile(doc, user), repositories |-> repos]

----------------------------------------------------------------------------
(* The prompt. *)

\* github_data['repositories'][:5]
Top5(repos) == SubSeq(repos, 1, Min(5, Len(repos)))

\* One line of the table (line 104), as its cells.
RenderRow(repo) ==
    <<Format(repo.name), ToString(repo.stars), Format(repo.description),
      Format(repo.language), Format(repo.last_updated)>>

\* RenderTable that pads an empty table with a row of empty cells.
RenderTablePadded(repos) ==
    IF repos = <<>> THEN << <<"", "", "", "", "">> >>
    ELSE [i \in 1..Len(Top5(repos)) |-> RenderRow(Top5(repos)[i])]

\* The rows joined at lines 103-106.
RenderTable(repos) == [i \in 1..Len(Top5(repos)) |-> RenderRow(Top5(repos)[i])]

\* The f-string of lines 94-110, as the values of its replacement fields.
ComposePromptText(data, color_palette, layout) ==
    [user |-> Format(data.profile.name),
     login |-> Format(data.profile.login),
     bio |-> Format(data.profile.bio),
     color_palette |-> color_palette,
     layout |-> layout,
     table |-> RenderTable(data.repositories)]

----------------------------------------------------------------------------
(* The generation service. *)

GenTexts == {"<html>portfolio</html>", "sorry"}

\* What anthropic.messages.create does: it raises, or it returns a Message.
\* Anthropic (line 91) is the package's synchronous client, whose create
\* returns the Message itself, which the await of line 112 rejects; a client
\* whose create is a coroutine function (a test double, the async client)
\* returns an awaitable.
NoReply == [kind |-> "none"]
Replies ==
    { [kind |-> "error", err |-> e] : e \in GenErrors }
    \cup { [kind |-> "message", awaitable |-> a, content |-> c] :
             a \in BOOLEAN, c \in GenTexts }

----------------------------------------------------------------------------
(* The handler. *)

Init ==
    /\ pc = "start"
    /\ request \in Requests
    /\ username = Unset
    /\ repos_json = Unset
    /\ profile_json = Unset
    /\ github_data = Unset
    /\ prompt = Unset
    /\ reply = NoReply
    /\ response = Unset
    /\ raised = NoExc
    /\ detail = ""
    /\ printed = <<>>
    /\ repo_calls = 0
    /\ profile_calls = 0
    /\ gen_calls = 0

\* Fail with a handler that returns normally instead of raising.
FailButReturn(e) ==
    /\ raised' = e
    /\ detail' = e.msg
    /\ pc' = "done"

\* Lines 150-151: the exception reaches generate_website's handler.
Fail(e) ==
    /\ raised' = e
    /\ detail' = e.msg
    /\ pc' = "failed"

\* FetchReturnsNone with a handler that returns a default dict.
FetchReturnsDefault(e) ==
    /\ printed' = Append(printed, e)
    /\ github_data' = GithubData([k \in {} |-> None], username, <<>>)
    /\ pc' = "compose"

\* FetchReturnsNone with a handler around the repository-list read alone:
\* after a failed read the function goes on with no repositories.
FetchContinues(e) ==
    /\ printed' = Append(printed, e)
    /\ IF pc = "fetch_repos"
       THEN github_data' = [repositories |-> <<>>] /\ pc' = "fetch_profile"
       ELSE github_data' = None /\ pc' = "compose"

\* Lines 81-86: the exception is printed and fetch_github_data returns None.
FetchReturnsNone(e) ==
    /\ printed' = Append(printed, e)
    /\ github_data' = None
    /\ pc' = "compose"

\* Line 136.
ResolveUsername ==
    /\ pc = "start"
    /\ username' = LastSegment(request.github_url)
    /\ pc' = "fetch_repos"
    /\ UNCHANGED <<request, repos_json, profile_json, github_data, prompt, reply,
                   response, raised, detail, printed, repo_calls, profile_calls,
                   gen_calls>>

\* Lines 39-58: the repository-list read, the loop and the sort.
ReposRead ==
    /\ pc = "fetch_repos"
    /\ repo_calls' = repo_calls + 1
    /\ \/ \E e \in ReadErrors :
            /\ FetchReturnsNone(e)
            /\ UNCHANGED <<repos_json, raised, detail>>
       \/ \E docs \in RepoResponses :
            /\ repos_json' = List(docs)
            /\ LET bad == FirstBad(docs)
                   e == IF bad = 0 THEN NoExc ELSE ParseError(docs[bad])
               IN  CASE e.type = "KeyError" ->
                          FetchReturnsNone(e) /\ UNCHANGED <<raised, detail>>
                     [] e.type = "TypeError" ->
                          Fail(e) /\ UNCHANGED <<github_data, printed>>
                     [] OTHER ->
                          /\ github_data' =
                                [repositories |-> SortByStars(ParseRepos(docs))]
                          /\ pc' = "fetch_profile"
                          /\ UNCHANGED <<raised, detail, printed>>
    /\ UNCHANGED <<request, username, profile_json, prompt, reply, response,
                   profile_calls, gen_calls>>

\* Lines 60-79: the profile read and the returned dict.
ProfileRead ==
    /\ pc = "fetch_profile"
    /\ profile_calls' = profile_calls + 1
    /\ \/ \E e \in ReadErrors :
            /\ FetchReturnsNone(e)
            /\ UNCHANGED profile_json
       \/ \E doc \in ProfileDocs :
            /\ profile_json' = Dict(doc)
            /\ github_data' = GithubData(doc, username, github_data.repositories)
            /\ pc' = "compose"
            /\ UNCHANGED printed
    /\ UNCHANGED <<request, username, repos_json, prompt, reply, response, raised,
                   detail, repo_calls, gen_calls>>

\* Lines 91-110: the client is constructed and the prompt is formatted;
\* subscripting None raises TypeError.
ComposePrompt ==
    /\ pc = "compose"
    /\ IF github_data = None
       THEN Fail(NoneSubscript) /\ UNCHANGED prompt
       ELSE /\ prompt' = ComposePromptText(github_data, request.color_palette,
                                           request.layout)
            /\ pc' = "generate"
            /\ UNCHANGED <<raised, detail>>
    /\ UNCHANGED <<request, username, repos_json, profile_json, github_data, reply,
                   response, printed, repo_calls, profile_calls, gen_calls>>

\* message.content of line 121.
ContentOf(message) == message.content

\* GenerationCall that issues the call again when the service raised.
GenerationCallRetrying ==
    /\ pc = "generate"
    /\ gen_calls' = gen_calls + 1
    /\ \E r \in Replies :
         /\ reply' = r
         /\ CASE r.kind = "error" ->
                    /\ printed' = Append(printed, r.err)
                    /\ UNCHANGED <<pc, raised, detail, response>>
              [] r.kind = "message" /\ ~r.awaitable ->
                    Fail(NotAwaitable) /\ UNCHANGED <<response, printed>>
              [] OTHER ->
                    /\ response' = [content |-> r.content]
                    /\ pc' = "done"
                    /\ UNCHANGED <<raised, detail, printed>>
    /\ UNCHANGED <<request, username, repos_json, profile_json, github_data,
                   prompt, repo_calls, profile_calls>>

\* Lines 112-121 and 148: the generation call, its await and the return.
GenerationCall ==
    /\ pc = "generate"
    /\ gen_calls' = gen_calls + 1
    /\ \E r \in Replies :
         /\ reply' = r
         /\ CASE r.kind = "error" -> Fail(r.err) /\ UNCHANGED response
              [] r.kind = "message" /\ ~r.awaitable ->
                    Fail(NotAwaitable) /\ UNCHANGED response
              [] OTHER ->
                    /\ response' = [content |-> ContentOf(r)]
                    /\ pc' = "done"
                    /\ UNCHANGED <<raised, detail>>
    /\ UNCHANGED <<request, username, repos_json, profile_json, github_data,
                   prompt, printed, repo_calls, profile_calls>>

Next ==
    \/ ResolveUsername
    \/ ReposRead
    \/ ProfileRead
    \/ ComposePrompt
    \/ GenerationCall

Spec == Init /\ [][Next]_vars

----------------------------------------------------------------------------
(* Notions the properties are stated in. *)

\* The stage of the request's state machine the handler is in.  The two
\* reads belong to the aggregation, which is complete once fetch_github_data
\* has returned a dict.
Stage ==
    CASE pc = "start"                          -> "Start"
      [] pc \in {"fetch_repos", "fetch_profile"} -> "UsernameResolved"
      [] pc = "compose" /\ github_data = None  -> "UsernameResolved"
      [] pc = "compose" /\ github_data # None  -> "ProfileFetched"
      [] pc = "generate"                       -> "PromptComposed"
      [] pc = "done"                           -> "ContentGenerated"
      [] pc = "failed"                         -> "Failed"

StageOrder == <<"Start", "UsernameResolved", "ProfileFetched", "PromptComposed",
                "ContentGenerated">>
Terminal == {"ContentGenerated", "Failed"}

Finished == pc \in {"done", "failed"}

ReposReadOk == repos_json # Unset
ProfileReadOk == profile_json # Unset
ReadFailed == \E i \in 1..Len(printed) : printed[i] \in ReadErrors

\* The error that made the request fail: the first one raised.
TriggeringError == IF printed # <<>> THEN printed[1] ELSE raised

SourceStars(i) == repos_json.items[i].stargazers_count

\* Place of the i-th repository of the source among all of them by star
\* count descending, equal counts in source order.
Rank(i) ==
    1 + Cardinality({ j \in 1..Len(repos_json.items) :
                        \/ SourceStars(j) > SourceStars(i)
                        \/ SourceStars(j) = SourceStars(i) /\ j < i })

Absent(v) == v = None \/ v = Str("")

----------------------------------------------------------------------------
(* Properties. *)

\* C1: once a GitHub read (the repository-list read or the profile read) has
\* failed with a transport or status error, the generation call is never
\* issued for the request.
NoGenerationAfterReadFailure ==
    ReadFailed => gen_calls = 0 /\ reply = NoReply

ProfileReadFailedAndFinished ==
    /\ pc = "failed"
    /\ profile_calls = 1
    /\ printed = <<TransportError>>
    /\ gen_calls = 0

\* C2: a failed request's HTTPException carries the message of the error
\* that triggered the failure.
FailureCarriesTriggeringMessage ==
    pc = "failed" => detail = TriggeringError.msg

\* C3: when both reads succeeded and the generation service returned a
\* text, the request succeeds and returns exactly that text.
RepliedTextIsReturned ==
    (ProfileReadOk /\ reply.kind = "message")
        => pc = "done" /\ response = [content |-> reply.content]

\* C4: the request moves through the stages in order, one at a time, or
\* from a non-terminal stage straight to Failed; it never leaves a terminal
\* stage.  (The aggregation stage spans the two reads.)
StageStep ==
    LET a == Stage
        b == Stage'
    IN  /\ a \notin Terminal
        /\ \/ a = "UsernameResolved" /\ b = a
           \/ \E k \in 1..(Len(StageOrder) - 1) :
                 a = StageOrder[k] /\ b = StageOrder[k + 1]
           \/ b = "Failed"
StagesInOrder == [][StageStep]_vars

AllStagesPassed ==
    /\ Stage = "ContentGenerated"
    /\ repo_calls = 1 /\ profile_calls = 1 /\ gen_calls = 1

\* C5: each of the three external calls is issued at most once per request.
NoRetries ==
    repo_calls <= 1 /\ profile_calls <= 1 /\ gen_calls <= 1

GenerationFailedOnce ==
    pc = "failed" /\ reply.kind = "error" /\ gen_calls = 1

\* C6: the prompt's table has min(5, n) rows, and its k-th row is the
\* repository that comes k-th when the n source repositories are ordered by
\* star count descending with equal counts in source order.
TableIsTopFiveByStars ==
    prompt # Unset =>
        LET docs == repos_json.items
        IN  /\ Len(prompt.table) = Min(5, Len(docs))
            /\ \A i \in 1..Len(docs) :
                 Rank(i) <= 5 =>
                    /\ prompt.table[Rank(i)][1] = Format(docs[i].name)
                    /\ prompt.table[Rank(i)][2] = ToString(SourceStars(i))

TruncatedTableWithTies ==
    /\ prompt # Unset
    /\ Len(repos_json.items) > 5
    /\ Len(prompt.table) = 5
    /\ \E i, j \in 1..Len(repos_json.items) :
          i < j /\ SourceStars(i) < SourceStars(j)
    /\ \E i, j \in 1..Len(repos_json.items) :
          i < j /\ SourceStars(i) = SourceStars(j) /\ Rank(j) <= 5

\* C7: with an empty repository list and a successful profile read the
\* prompt's table is empty and the generation call is issued.
EmptyListStillGenerates ==
    (ReposReadOk /\ ProfileReadOk /\ repos_json.items = <<>>) =>
        /\ pc # "compose" => prompt # Unset /\ prompt.table = <<>>
        /\ Finished => gen_calls = 1 /\ reply # NoReply

EmptyListGenerated ==
    /\ ReposReadOk /\ ProfileReadOk /\ repos_json.items = <<>>
    /\ prompt # Unset /\ prompt.table = <<>>
    /\ gen_calls = 1 /\ pc = "done"

\* C8: in the Profile of a successful aggregation every field other than
\* login that is missing or null in the profile document is '' (0 for
\* public_repos).
AbsentProfileFieldsDefaulted ==
    (ProfileReadOk /\ github_data # None) =>
        \A k \in ProfileKeys :
            (k \notin DOMAIN profile_json.items \/ profile_json.items[k] = None)
                => github_data.profile[k] =
                      IF k = "public_repos" THEN Num(0) ELSE Str("")

\* C9: a repository whose description (language) is null or empty is
\* rendered with 'No description' ('Not specified'), and no row has an
\* empty description or language cell.
AbsentCellsShowPlaceholder ==
    prompt # Unset =>
        /\ \A k \in 1..Len(prompt.table) :
              prompt.table[k][3] # "" /\ prompt.table[k][4] # ""
        /\ \A i \in 1..Len(repos_json.items) :
              Rank(i) <= 5 =>
                 /\ Absent(repos_json.items[i].description)
                       => prompt.table[Rank(i)][3] = "No description"
                 /\ Absent(repos_json.items[i].language)
                       => prompt.table[Rank(i)][4] = "Not specified"

PlaceholdersRendered ==
    /\ prompt # Unset
    /\ \E i, j \in 1..Len(repos_json.items) :
          /\ repos_json.items[i].description = None
          /\ repos_json.items[j].language = Str("")
          /\ prompt.table[Rank(i)][3] = "No description"
          /\ prompt.table[Rank(j)][4] = "Not specified"

\* C10: the profile read is issued only after the repository-list read has
\* succeeded and every entry has been parsed; after a failed read or an
\* entry with a missing key it is never issued.
ProfileReadOnlyAfterRepos ==
    /\ profile_calls > 0 =>
          /\ repo_calls = 1
          /\ ReposReadOk
          /\ \A i \in 1..Len(repos_json.items) :
                ParseError(repos_json.items[i]) = NoExc
    /\ (pc # "fetch_repos" /\ pc # "start" /\ ~ReposReadOk) => profile_calls = 0

MissingKeyEndsWithoutProfileRead ==
    /\ pc = "failed"
    /\ ReposReadOk
    /\ \E i \in 1..Len(repos_json.items) :
          ParseError(repos_json.items[i]).type = "KeyError"
    /\ profile_calls = 0

====
